---- MODULE Spec2Model ----
(***************************************************************************)
(* Model of anki/models.py (ModelManager): the requirement cache of a      *)
(* note-type, the availability evaluator, and the field/template mutation  *)
(* pipeline together with the stored notes and cards it rewrites.          *)
(*                                                                         *)
(* Text is a sequence of one-character strings.  A question pattern is a   *)
(* sequence of lexemes ("{{", "}}", "#", "^", "/", a field name, a         *)
(* literal), the granularity at which renameField's regular expression     *)
(* and the renderer look at it.  Modification times and update sequence    *)
(* numbers (mod, usn) are not modelled, nor is the answer pattern (afmt).  *)
(***************************************************************************)
EXTENDS Integers, Sequences, FiniteSets, TLC

\* ------------------------------------------------------------------ bounds
MaxFlds == 2
MaxTmpls == 2
MaxNotes == 1

\* ------------------------------------------------------------------ constants
MODEL_STD == 0
MODEL_CLOZE == 1

\* the unit separator (character 0x1f) that joins a note's fields in storage
US == "x1f"

\* the characters Python's str.strip() removes (one representative)
Whitespace == {" "}

\* the names addField and addTemplate draw from, as many as the lists may hold
FieldNames == {<<"Front", "Back", "Extra", "Hint">>[i] : i \in 1..MaxFlds}
TemplateNames == {<<"Card1", "Card2", "Card3", "Card4">>[i] : i \in 1..MaxTmpls}

\* ------------------------------------------------------------------ text
RECURSIVE joinFields(_)
joinFields(list) ==
    IF list = <<>> THEN <<>>
    ELSE IF Len(list) = 1 THEN list[1]
    ELSE list[1] \o <<US>> \o joinFields(Tail(list))

RECURSIVE splitFrom(_, _)
\* s is the text still to read, cur the field being collected
splitFrom(s, cur) ==
    IF s = <<>> THEN <<cur>>
    ELSE IF Head(s) = US THEN <<cur>> \o splitFrom(Tail(s), <<>>)
    ELSE splitFrom(Tail(s), Append(cur, Head(s)))

splitFields(string) == splitFrom(string, <<>>)

RECURSIVE lstrip(_)
lstrip(s) ==
    IF s # <<>> /\ Head(s) \in Whitespace THEN lstrip(Tail(s)) ELSE s

RECURSIVE rstrip(_)
rstrip(s) ==
    IF s # <<>> /\ s[Len(s)] \in Whitespace
    THEN rstrip(SubSeq(s, 1, Len(s) - 1)) ELSE s

strip(s) == rstrip(lstrip(s))

\* Python list operations, on 0-based positions
ListDel(list, i) == SubSeq(list, 1, i) \o SubSeq(list, i + 2, Len(list))
ListInsert(list, i, x) ==
    LET k == IF i > Len(list) THEN Len(list) ELSE i
    IN SubSeq(list, 1, k) \o <<x>> \o SubSeq(list, k + 1, Len(list))
ListIndex(list, x) == CHOOSE i \in 0..(Len(list) - 1) : list[i + 1] = x
Range(list) == {list[i] : i \in 1..Len(list)}

\* as moveList, swapping the two positions
moveListSwap(list, oldidx, idx) ==
    [k \in 1..Len(list) |->
        IF k = oldidx + 1 THEN list[idx + 1]
        ELSE IF k = idx + 1 THEN list[oldidx + 1] ELSE list[k]]

\* list.remove(x) at oldidx followed by list.insert(idx, x)
moveList(list, oldidx, idx) == ListInsert(ListDel(list, oldidx), idx, list[oldidx + 1])

\* ------------------------------------------------------------------ patterns
Ref(f) == <<"{{", f, "}}">>
Sec(f, body) == <<"{{", "#", f, "}}">> \o body \o <<"{{", "/", f, "}}">>
Lit == <<"x">>
Inv(f, body) == <<"{{", "^", f, "}}">> \o body \o <<"{{", "/", f, "}}">>

Marks == {"{{", "}}", "#", "^", "/", ":"}

\* position of the first "{{ / name }}" in q at or after position from, 0 if none
RECURSIVE closeAt(_, _, _)
closeAt(q, name, from) ==
    IF from + 3 > Len(q) THEN 0
    ELSE IF q[from] = "{{" /\ q[from + 1] = "/" /\ q[from + 2] = name
            /\ q[from + 3] = "}}" THEN from
    ELSE closeAt(q, name, from + 1)

\* The renderer: {{name}} is replaced by the field's value, a section
\* {{#name}}..{{/name}} is kept when the field is non-empty and {{^name}}..
\* when it is empty, anything else is copied to the output.
RECURSIVE render(_, _)
render(q, fields) ==
    IF q = <<>> THEN <<>>
    ELSE IF Len(q) >= 3 /\ q[1] = "{{" /\ q[2] \notin Marks /\ q[3] = "}}"
    THEN (IF q[2] \in DOMAIN fields THEN fields[q[2]] ELSE <<"?", q[2]>>)
         \o render(SubSeq(q, 4, Len(q)), fields)
    ELSE IF Len(q) >= 4 /\ q[1] = "{{" /\ q[2] \in {"#", "^"}
            /\ q[3] \notin Marks /\ q[4] = "}}" /\ closeAt(q, q[3], 5) > 0
    THEN LET c == closeAt(q, q[3], 5)
             filled == q[3] \in DOMAIN fields /\ fields[q[3]] # <<>>
             shown == IF q[2] = "#" THEN filled ELSE ~filled
         IN (IF shown THEN render(SubSeq(q, 5, c - 1), fields) ELSE <<>>)
            \o render(SubSeq(q, c + 4, Len(q)), fields)
    ELSE <<q[1]>> \o render(Tail(q), fields)

\* col._renderQA(data)['q'] for data = [.., mid, .., ord, .., joined fields]:
\* the question side of template ord of the registered note-type
renderQA(flds, tmpls, ord, joined) ==
    LET vals == splitFields(joined)
        fields == [n \in {flds[i].name : i \in 1..Len(flds)} |->
                     LET i == CHOOSE j \in 1..Len(flds) : flds[j].name = n
                     IN IF i <= Len(vals) THEN vals[i] ELSE <<>>]
    IN render(tmpls[ord + 1].qfmt, fields)

\* ------------------------------------------------------------------ required field cache
Indices(n) == [i \in 1..n |-> i - 1]

\* the field vector a with position i (0-based) set to v
Probe(n, fill, i, v) == [k \in 1..n |-> IF k = i + 1 THEN v ELSE fill]

\* as reqForTemplate, with the 'any' probes built from the filled vector
reqForTemplateAnyFromFull(flds, tmpls, t) ==
    LET n == Len(flds)
        a == [k \in 1..n |-> <<"1">>]
        b == [k \in 1..n |-> <<>>]
        full == renderQA(flds, tmpls, t.ord, joinFields(a))
        empty == renderQA(flds, tmpls, t.ord, joinFields(b))
        allReq == SelectSeq(Indices(n), LAMBDA i :
                     renderQA(flds, tmpls, t.ord,
                              joinFields(Probe(n, <<"1">>, i, <<>>))) = empty)
        anyReq == SelectSeq(Indices(n), LAMBDA i :
                     renderQA(flds, tmpls, t.ord,
                              joinFields(Probe(n, <<"1">>, i, <<"1">>))) # empty)
    IN IF full = empty THEN [type |-> "none", req |-> <<>>]
       ELSE IF allReq # <<>> THEN [type |-> "all", req |-> allReq]
       ELSE [type |-> "any", req |-> anyReq]

reqForTemplate(flds, tmpls, t) ==
    LET n == Len(flds)
        a == [k \in 1..n |-> <<"1">>]
        b == [k \in 1..n |-> <<>>]
        full == renderQA(flds, tmpls, t.ord, joinFields(a))
        empty == renderQA(flds, tmpls, t.ord, joinFields(b))
        allReq == SelectSeq(Indices(n), LAMBDA i :
                     renderQA(flds, tmpls, t.ord,
                              joinFields(Probe(n, <<"1">>, i, <<>>))) = empty)
        anyReq == SelectSeq(Indices(n), LAMBDA i :
                     renderQA(flds, tmpls, t.ord,
                              joinFields(Probe(n, <<>>, i, <<"1">>))) # empty)
    IN IF full = empty THEN [type |-> "none", req |-> <<>>]
       ELSE IF allReq # <<>> THEN [type |-> "all", req |-> allReq]
       ELSE [type |-> "any", req |-> anyReq]

updateRequired(type, flds, tmpls, req) ==
    IF type = MODEL_CLOZE THEN req
    ELSE [k \in 1..Len(tmpls) |->
            LET ret == reqForTemplate(flds, tmpls, tmpls[k])
            IN [ord |-> tmpls[k].ord, type |-> ret.type, req |-> ret.req]]

\* ------------------------------------------------------------------ availability
\* does the cached entry e admit the (stripped) field values?
entryOk(e, fields) ==
    IF e.type = "none" THEN FALSE
    ELSE IF e.type = "all"
    THEN \A k \in 1..Len(e.req) : fields[e.req[k] + 1] # <<>>
    ELSE IF e.type = "any"
    THEN \E k \in 1..Len(e.req) : fields[e.req[k] + 1] # <<>>
    ELSE TRUE

RECURSIVE availFrom(_, _)
availFrom(req, fields) ==
    IF req = <<>> THEN <<>>
    ELSE (IF entryOk(Head(req), fields) THEN <<Head(req).ord>> ELSE <<>>)
         \o availFrom(Tail(req), fields)

\* as availOrds, without f.strip()
availOrdsNoStrip(req, joined) ==
    LET sf == splitFields(joined)
    IN availFrom(req, sf)

\* the Standard branch of availOrds: a list of template ordinals
availOrds(req, joined) ==
    LET sf == splitFields(joined)
        fields == [c \in 1..Len(sf) |-> strip(sf[c])]
    IN availFrom(req, fields)

\* ------------------------------------------------------------------ state
VARIABLES
    id,        \* m['id']: 0 while the note-type is new (None), else its id
    type,      \* m['type']
    sortf,     \* m['sortf']
    flds,      \* m['flds']: list of [name, ord]
    tmpls,     \* m['tmpls']: list of [name, ord, qfmt]
    req,       \* m['req']: list of [ord, type, req]; empty while never built
    changed,   \* self.changed, the registry's dirty flag
    scm,       \* the storage collaborator's schema-changed marker
    notes,     \* stored notes of the note-type: nid -> joined field text
    cards,     \* stored cards of those notes: set of [id, nid, ord]
    last,      \* the last call: [op, arg, ret, trace], trace being the
               \* order in which the handler touched its collaborators
    cardTmpl,  \* history: card id -> name of the template it was made for
    noteVals,  \* history: nid -> (field name -> value the note holds for it)
    dbModels,  \* the registry as last written to storage by flush()
    noteMid    \* stored notes: nid -> id of the note's note-type

vars == <<id, type, sortf, flds, tmpls, req, changed, scm, notes, cards,
          last, cardTmpl, noteVals, dbModels, noteMid>>

NoteValues == {<<>>, <<"a">>}

\* question patterns offered to addTemplate
Patterns == {Ref("Front"), Ref("Back"), Ref("Front") \o Ref("Back")}

None == -1

Call(op, arg, ret, trace) == [op |-> op, arg |-> arg, ret |-> ret, trace |-> trace]

\* new(): an empty, unsaved Standard note-type; load(): a clean registry
Init ==
    /\ id = 0
    /\ type = MODEL_STD
    /\ sortf = 0
    /\ flds = <<>>
    /\ tmpls = <<>>
    /\ req = <<>>
    /\ changed = FALSE
    /\ scm = FALSE
    /\ notes = <<>>
    /\ cards = {}
    /\ last = Call("new", <<>>, "None", <<>>)
    /\ cardTmpl = <<>>
    /\ noteVals = <<>>
    /\ dbModels = <<>>
    /\ noteMid = <<>>

\* ------------------------------------------------------------------ helpers
\* as updateFieldOrds, counting from 1
updateFieldOrdsFrom1(list) == [c \in 1..Len(list) |-> [list[c] EXCEPT !.ord = c]]

updateFieldOrds(list) == [c \in 1..Len(list) |-> [list[c] EXCEPT !.ord = c - 1]]

updateTemplOrds(list) == [c \in 1..Len(list) |-> [list[c] EXCEPT !.ord = c - 1]]

\* as save, without the call of _updateRequired
saveNoRebuild(mid, mtype, mflds, mtmpls, mreq) == mreq

\* save(m): the cache m['req'] it leaves; the callers set self.changed
save(mid, mtype, mflds, mtmpls, mreq) ==
    IF mid # 0 THEN updateRequired(mtype, mflds, mtmpls, mreq) ELSE mreq

\* as addFieldNote, with the new slot put first
addFieldNoteFirst(fields) == <<<<>>>> \o fields

\* the inner functions addField, remField and moveField hand to
\* _transformFields
addFieldNote(fields) == Append(fields, <<>>)
deleteFieldNote(fields, idx) == ListDel(fields, idx)

\* as moveFieldNote, deleting at the new position
moveFieldNoteOverwrite(fields, oldidx, idx) ==
    ListInsert(ListDel(fields, idx), idx, fields[oldidx + 1])

moveFieldNote(fields, oldidx, idx) == moveList(fields, oldidx, idx)

\* fn(fields) for fn = <<"add">>, <<"delete", idx>> or <<"move", oldidx, idx>>
applyFn(fn, fields) ==
    IF fn[1] = "add" THEN addFieldNote(fields)
    ELSE IF fn[1] = "delete" THEN deleteFieldNote(fields, fn[2])
    ELSE moveFieldNote(fields, fn[2], fn[3])

\* _transformFields(m, fn): every stored note of m rewritten by fn
transformFields(mid, stored, fn) ==
    IF mid = 0 THEN stored
    ELSE [n \in DOMAIN stored |-> joinFields(applyFn(fn, splitFields(stored[n])))]

\* ------------------------------------------------------------------ registry
\* add(m): _setID, update, setCurrent, save(m)
add ==
    /\ id = 0
    /\ id' = 1
    /\ req' = save(1, type, flds, tmpls, req)
    /\ changed' = TRUE
    /\ last' = Call("add", <<>>, "None", <<"save">>)
    /\ UNCHANGED <<dbModels, noteMid, type, sortf, flds, tmpls, scm, notes, cards, cardTmpl, noteVals>>

\* ------------------------------------------------------------------ fields
addField(name) ==
    /\ Len(flds) < MaxFlds
    /\ \A i \in 1..Len(flds) : flds[i].name # name
    /\ LET newflds == updateFieldOrds(Append(flds, [name |-> name, ord |-> None]))
       IN /\ flds' = newflds
          /\ req' = save(id, type, newflds, tmpls, req)
    /\ scm' = IF id # 0 THEN TRUE ELSE scm
    /\ changed' = TRUE
    /\ notes' = transformFields(id, notes, <<"add">>)
    /\ noteVals' = [n \in DOMAIN noteVals |->
                      [f \in DOMAIN noteVals[n] \cup {name} |->
                         IF f = name THEN <<>> ELSE noteVals[n][f]]]
    /\ last' = Call("addField", <<>>, "None",
                    (IF id # 0 THEN <<"modSchema">> ELSE <<>>)
                    \o <<"flds", "save">>
                    \o (IF id # 0 THEN <<"notes">> ELSE <<>>))
    /\ UNCHANGED <<dbModels, noteMid, id, type, sortf, tmpls, cards, cardTmpl>>

\* re.sub("({{|[:#^/])NAME(}})", "", fmt): every reference to NAME deleted
RECURSIVE reSubName(_, _)
reSubName(q, name) ==
    IF q = <<>> THEN <<>>
    ELSE IF Len(q) >= 3 /\ q[1] \in {"{{", ":", "#", "^", "/"} /\ q[2] = name
            /\ q[3] = "}}"
    THEN reSubName(SubSeq(q, 4, Len(q)), name)
    ELSE <<q[1]>> \o reSubName(Tail(q), name)

\* renameField(m, field, None): the templates it leaves
renameFieldNone(list, name) ==
    [k \in 1..Len(list) |-> [list[k] EXCEPT !.qfmt = reSubName(list[k].qfmt, name)]]

remFieldSortf(sf, nflds) == IF sf >= nflds THEN sf - 1 ELSE sf

remField(idx) ==
    /\ idx \in 0..(Len(flds) - 1)
    /\ LET field == flds[idx + 1]
           newflds == updateFieldOrds(ListDel(flds, idx))
           newsortf == remFieldSortf(sortf, Len(newflds))
           newtmpls == renameFieldNone(tmpls, field.name)
       IN /\ flds' = newflds
          /\ sortf' = newsortf
          /\ tmpls' = newtmpls
          /\ notes' = transformFields(id, notes, <<"delete", idx>>)
          /\ req' = save(id, type, newflds, newtmpls, req)
          /\ noteVals' = [n \in DOMAIN noteVals |->
                            [f \in DOMAIN noteVals[n] \ {field.name} |-> noteVals[n][f]]]
          /\ last' = Call("remField", <<>>, "None",
                          <<"modSchema", "flds", "sortf">>
                          \o (IF id # 0 THEN <<"notes">> ELSE <<>>)
                          \o (IF idx = newsortf THEN <<"updateFieldCache">> ELSE <<>>)
                          \o <<"modSchema", "tmpls", "save">>)
    /\ scm' = TRUE
    /\ changed' = TRUE
    /\ UNCHANGED <<dbModels, noteMid, id, type, cards, cardTmpl>>

moveFieldSortf(sf, oldidx, idx) == idx

moveField(oldidx, idx) ==
    /\ oldidx \in 0..(Len(flds) - 1)
    /\ idx \in 0..(Len(flds) - 1)
    /\ scm' = TRUE
    /\ IF oldidx = idx
       THEN /\ last' = Call("moveField", <<>>, "None", <<"modSchema">>)
            /\ UNCHANGED <<flds, sortf, req, changed, notes>>
       ELSE LET newflds == updateFieldOrds(moveList(flds, oldidx, idx))
            IN /\ flds' = newflds
               /\ sortf' = moveFieldSortf(sortf, oldidx, idx)
               /\ req' = save(id, type, newflds, tmpls, req)
               /\ changed' = TRUE
               /\ notes' = transformFields(id, notes, <<"move", oldidx, idx>>)
               /\ last' = Call("moveField", <<oldidx, idx>>, "None",
                               <<"modSchema", "flds", "sortf", "save">>
                               \o (IF id # 0 THEN <<"notes">> ELSE <<>>))
    /\ UNCHANGED <<dbModels, noteMid, id, type, tmpls, cards, cardTmpl, noteVals>>

\* ------------------------------------------------------------------ templates
addTemplate(name, qfmt) ==
    /\ Len(tmpls) < MaxTmpls
    /\ \A i \in 1..Len(tmpls) : tmpls[i].name # name
    /\ LET newtmpls == updateTemplOrds(
                          Append(tmpls, [name |-> name, ord |-> None, qfmt |-> qfmt]))
       IN /\ tmpls' = newtmpls
          /\ req' = save(id, type, flds, newtmpls, req)
    /\ scm' = IF id # 0 THEN TRUE ELSE scm
    /\ changed' = TRUE
    /\ last' = Call("addTemplate", <<>>, "None",
                    (IF id # 0 THEN <<"modSchema">> ELSE <<>>) \o <<"tmpls", "save">>)
    /\ UNCHANGED <<dbModels, noteMid, id, type, sortf, flds, notes, cards, cardTmpl, noteVals>>

\* select c.id from cards c, notes f where c.nid=f.id and mid = ? and ord = ?
cardsUsing(stored, ord) == {c.id : c \in {d \in stored : d.ord = ord}}

\* as orphanNids, with "having count() < 1"
orphanNidsNever(stored, cids) ==
    {n \in {c.nid : c \in {d \in stored : d.id \in cids}} :
        Cardinality({c \in stored : c.nid = n}) < 1}

\* as orphanNids, with "having count() <= 2"
orphanNidsAtMost2(stored, cids) ==
    {n \in {c.nid : c \in {d \in stored : d.id \in cids}} :
        Cardinality({c \in stored : c.nid = n}) <= 2}

\* the notes the orphan query can return: those with a card among cids and
\* fewer than 2 cards in all
orphanNids(stored, cids) ==
    {n \in {c.nid : c \in {d \in stored : d.id \in cids}} :
        Cardinality({c \in stored : c.nid = n}) < 2}

\* as shiftOrds, with "ord < ?"
shiftOrdsBelow(stored, ord) ==
    {IF c.ord < ord THEN [c EXCEPT !.ord = c.ord - 1] ELSE c : c \in stored}

\* update cards set ord = ord - 1 where ... ord > ?
shiftOrds(stored, ord) ==
    {IF c.ord > ord THEN [c EXCEPT !.ord = c.ord - 1] ELSE c : c \in stored}

remTemplate(ord) ==
    /\ Len(tmpls) > 1
    /\ ord \in 0..(Len(tmpls) - 1)
    /\ LET cids == cardsUsing(cards, ord)
       IN IF \E nid \in orphanNids(cards, cids) : nid # 0
          THEN /\ last' = Call("remTemplate", <<ord>>, "False", <<>>)
               /\ UNCHANGED <<tmpls, req, changed, scm, cards, cardTmpl>>
          ELSE LET kept == {c \in cards : c.id \notin cids}
                   newcards == shiftOrds(kept, ord)
                   newtmpls == updateTemplOrds(ListDel(tmpls, ord))
               IN /\ scm' = TRUE
                  /\ cards' = newcards
                  /\ cardTmpl' = [c \in {d.id : d \in newcards} |-> cardTmpl[c]]
                  /\ tmpls' = newtmpls
                  /\ req' = save(id, type, flds, newtmpls, req)
                  /\ changed' = TRUE
                  /\ last' = Call("remTemplate", <<ord>>, "True",
                                  <<"modSchema", "cards", "tmpls", "save">>)
    /\ UNCHANGED <<dbModels, noteMid, id, type, sortf, flds, notes, noteVals>>

\* the "when ord = old then new" map of moveTemplate: old ordinal -> new one
changeMap(old, new) ==
    [o \in {old[i].ord : i \in 1..Len(old)} |->
        LET t == CHOOSE i \in 1..Len(old) : old[i].ord = o
        IN new[CHOOSE k \in 1..Len(new) : new[k].name = old[t].name].ord]

\* update cards set ord = (case .. end)
remapOrds(stored, map) ==
    {[c EXCEPT !.ord = IF c.ord \in DOMAIN map THEN map[c.ord] ELSE None] : c \in stored}

moveTemplate(oldidx, idx) ==
    /\ oldidx \in 0..(Len(tmpls) - 1)
    /\ idx \in 0..(Len(tmpls) - 1)
    /\ IF oldidx = idx
       THEN /\ last' = Call("moveTemplate", <<>>, "None", <<>>)
            /\ UNCHANGED <<tmpls, req, changed, cards>>
       ELSE LET newtmpls == updateTemplOrds(moveList(tmpls, oldidx, idx))
            IN /\ tmpls' = newtmpls
               /\ req' = save(id, type, flds, newtmpls, req)
               /\ changed' = TRUE
               /\ cards' = remapOrds(cards, changeMap(tmpls, newtmpls))
               /\ last' = Call("moveTemplate", <<oldidx, idx>>, "None",
                               <<"tmpls", "save", "cards">>)
    /\ UNCHANGED <<dbModels, noteMid, id, type, sortf, flds, scm, notes, cardTmpl, noteVals>>

\* ------------------------------------------------------------------ card generation
\* the collection adds a note with the given field values and one card per
\* available template; a note without cards is not added
addNote(values) ==
    /\ id # 0
    /\ Len(flds) >= 1
    /\ Len(values) = Len(flds)
    /\ Len(notes) < MaxNotes
    /\ LET nid == Len(notes) + 1
           joined == joinFields(values)
           avail == availOrds(req, joined)
           made == {[id |-> nid * 10 + avail[k], nid |-> nid, ord |-> avail[k]] :
                      k \in 1..Len(avail)}
       IN /\ avail # <<>>
          /\ notes' = Append(notes, joined)
          /\ cards' = cards \cup made
          /\ cardTmpl' = [c \in DOMAIN cardTmpl \cup {d.id : d \in made} |->
                            IF c \in DOMAIN cardTmpl THEN cardTmpl[c]
                            ELSE tmpls[(c - nid * 10) + 1].name]
          /\ noteVals' = Append(noteVals,
                                [f \in {flds[i].name : i \in 1..Len(flds)} |->
                                   values[(CHOOSE i \in 1..Len(flds) : flds[i].name = f)]])
    /\ noteMid' = Append(noteMid, id)
    /\ last' = Call("addNote", <<>>, "None", <<"notes", "cards">>)
    /\ UNCHANGED <<dbModels, id, type, sortf, flds, tmpls, req, changed, scm>>

Next ==
    \/ add
    \/ \E name \in FieldNames : addField(name)
    \/ \E idx \in 0..(MaxFlds - 1) : remField(idx)
    \/ \E oldidx, idx \in 0..(MaxFlds - 1) : moveField(oldidx, idx)
    \/ \E name \in TemplateNames, qfmt \in Patterns : addTemplate(name, qfmt)
    \/ \E ord \in 0..(MaxTmpls - 1) : remTemplate(ord)
    \/ \E oldidx, idx \in 0..(MaxTmpls - 1) : moveTemplate(oldidx, idx)
    \/ \E n \in 1..MaxFlds : \E values \in [1..n -> NoteValues] : addNote(values)

Spec == Init /\ [][Next]_vars

\* ------------------------------------------------------------------ the cache builder and the evaluator on their own
\* A note-type populated before it is saved, with up to three fields and one
\* or two templates; add(m) builds its cache, availOrds is then
\* called on a payload.
ReqFieldNames == {"Front", "Back", "Extra"}

ReqPatterns ==
    {Lit,
     Ref("Front"),
     Lit \o Ref("Back"),
     Ref("Front") \o Ref("Back"),
     Sec("Front", Ref("Back")),
     Inv("Front", Lit) \o Sec("Front", Lit),
     Inv("Back", Ref("Front")),
     Sec("Front", Ref("Back")) \o Sec("Back", Ref("Extra")) \o Sec("Extra", Ref("Front"))}

ReqValues == {<<>>, <<" ">>, <<"a", " ">>}

ReqFieldLists ==
    {l \in UNION {[1..n -> ReqFieldNames] : n \in 0..Cardinality(ReqFieldNames)} :
        \A i, j \in 1..Len(l) : i # j => l[i] # l[j]}

InitReq ==
    /\ id = 0
    /\ type = MODEL_STD
    /\ sortf = 0
    /\ \E l \in ReqFieldLists :
          flds = updateFieldOrds([i \in 1..Len(l) |-> [name |-> l[i], ord |-> None]])
    /\ \E n \in 1..2 : \E q \in [1..n -> ReqPatterns] :
          tmpls = updateTemplOrds(
                     [i \in 1..n |-> [name |-> <<"Card1", "Card2">>[i], ord |-> None,
                                      qfmt |-> q[i]]])
    /\ req = <<>>
    /\ changed = TRUE
    /\ scm = FALSE
    /\ notes = <<>>
    /\ cards = {}
    /\ last = Call("new", <<>>, "None", <<>>)
    /\ cardTmpl = <<>>
    /\ noteVals = <<>>
    /\ dbModels = <<>>
    /\ noteMid = <<>>

\* availOrds(m, joinFields(values)) on the saved note-type
callAvailOrds(values) ==
    /\ id # 0
    /\ type = MODEL_STD
    /\ Len(values) = IF flds = <<>> THEN 1 ELSE Len(flds)
    /\ last.op # "availOrds"
    /\ last' = Call("availOrds", values, availOrds(req, joinFields(values)), <<>>)
    /\ UNCHANGED <<dbModels, noteMid, id, type, sortf, flds, tmpls, req, changed, scm, notes, cards,
                   cardTmpl, noteVals>>

NextReq ==
    \/ add
    \/ \E n \in 1..Cardinality(ReqFieldNames) :
          \E values \in [1..n -> ReqValues] : callAvailOrds(values)

SpecReq == InitReq /\ [][NextReq]_vars

\* ------------------------------------------------------------------ claims C1, C2
\* the question of template k (1-based) with exactly the fields at the
\* ordinals in S filled
QuestionWith(k, S) ==
    render(tmpls[k].qfmt,
           [n \in {flds[i].name : i \in 1..Len(flds)} |->
              IF \E i \in 1..Len(flds) : flds[i].name = n /\ (i - 1) \in S
              THEN <<"1">> ELSE <<>>])

AllOrds == 0..(Len(flds) - 1)
Necessary(k) == {i \in AllOrds : QuestionWith(k, AllOrds \ {i}) = QuestionWith(k, {})}
Sufficient(k) == {i \in AllOrds : QuestionWith(k, {i}) # QuestionWith(k, {})}

Ascending(list) == \A i, j \in 1..Len(list) : i < j => list[i] < list[j]

ExpectedReq(k, e) ==
    /\ e.ord = k - 1
    /\ Ascending(e.req)
    /\ IF QuestionWith(k, AllOrds) = QuestionWith(k, {})
       THEN e.type = "none" /\ e.req = <<>>
       ELSE IF Necessary(k) # {}
       THEN e.type = "all" /\ Range(e.req) = Necessary(k)
       ELSE e.type = "any" /\ Range(e.req) = Sufficient(k)

\* C2: once the cache is built, each template's entry is 'none' with no
\* fields iff the all-filled and all-empty questions agree, else 'all' with
\* the individually necessary fields when there are any, else 'any' with the
\* individually sufficient fields; [Front, Back] with {{Front}} gives
\* ('all', [0]).
C2_ReqForTemplate ==
    id # 0 =>
       /\ Len(req) = Len(tmpls)
       /\ \A k \in 1..Len(tmpls) : ExpectedReq(k, req[k])
       /\ (/\ Len(flds) = 2 /\ flds[1].name = "Front" /\ flds[2].name = "Back"
           /\ tmpls[1].qfmt = Ref("Front"))
          => (req[1].type = "all" /\ req[1].req = <<0>>)

\* [Front, Back] with {{Front}} as first template and {{Front}}{{Back}} as
\* second: the built cache holds an 'all' and an 'any' entry
C2_Witness ==
    /\ id # 0
    /\ Len(flds) = 2 /\ flds[1].name = "Front" /\ flds[2].name = "Back"
    /\ Len(tmpls) = 2 /\ tmpls[1].qfmt = Ref("Front")
    /\ req = <<[ord |-> 0, type |-> "all", req |-> <<0>>],
               [ord |-> 1, type |-> "any", req |-> <<0, 1>>]>>

NonBlank(v) == \E i \in 1..Len(v) : v[i] \notin Whitespace

Eligible(e, values) ==
    \/ e.type = "all" /\ \A i \in Range(e.req) : NonBlank(values[i + 1])
    \/ e.type = "any" /\ \E i \in Range(e.req) : NonBlank(values[i + 1])

\* C1: availOrds returns, in template order, exactly the ordinals of the
\* cached entries that are 'all' with every required field non-blank or 'any'
\* with some required field non-blank.
C1_AvailOrds ==
    last.op = "availOrds" =>
       LET hit == SelectSeq(req, LAMBDA e : Eligible(e, last.arg))
       IN last.ret = [k \in 1..Len(hit) |-> hit[k].ord]

\* a call over a whitespace-only field that returns one template and rejects
\* an 'any' entry with no field although some field is filled
C1_Witness ==
    /\ last.op = "availOrds"
    /\ Len(last.ret) = 1
    /\ \E i \in 1..Len(last.arg) : last.arg[i] = <<" ">>
    /\ \E i \in 1..Len(last.arg) : NonBlank(last.arg[i])
    /\ \E k \in 1..Len(req) : req[k].type = "any" /\ req[k].req = <<>>

\* ------------------------------------------------------------------ claims C3 .. C10
CardsOf(n) == {c \in cards : c.nid = n}

\* the stored state and flags a call may touch
store == <<id, type, sortf, flds, tmpls, req, changed, scm, notes, cards>>

\* some note's only card sits on template ord
OnlyCardOn(ord) ==
    \E c \in cards : c.ord = ord /\ \A d \in cards : d.nid = c.nid => d = c

\* C3: when a note with a card on the template has fewer than 2 cards,
\* remTemplate returns False and changes nothing: templates, cache, cards,
\* notes, the dirty flag and the schema marker are as before, and no
\* collaborator was called.
C3_RemTemplateRejects ==
    [][(last'.op = "remTemplate" /\ OnlyCardOn(last'.arg[1]))
         => (last'.ret = "False" /\ last'.trace = <<>> /\ UNCHANGED store)]_vars

\* a rejected removal: two templates, a note whose only card is on the one named
C3_Witness ==
    /\ last.op = "remTemplate" /\ last.ret = "False"
    /\ Len(tmpls) = 2
    /\ OnlyCardOn(last.arg[1])

\* C4: remTemplate succeeds iff every note keeps a card once the cards of
\* the removed template are gone; and no note is ever left without a card.
C4_RemTemplateIff ==
    /\ [][last'.op = "remTemplate"
            => (last'.ret = "True"
                  <=> \A n \in DOMAIN notes :
                         \E c \in CardsOf(n) : c.ord # last'.arg[1])]_vars
    /\ [](\A n \in DOMAIN notes : CardsOf(n) # {})

\* a successful removal that left a note one card, moved down from a
\* higher template
C4_Witness ==
    /\ last.op = "remTemplate" /\ last.ret = "True"
    /\ \E n \in DOMAIN notes : Cardinality(CardsOf(n)) = 1
    /\ \E c \in cards : c.id # c.nid * 10 + c.ord

PipelineOps ==
    {"addField", "remField", "moveField", "addTemplate", "remTemplate", "moveTemplate"}

Completed == last.op \in PipelineOps /\ last.ret # "False"

CacheFresh ==
    /\ Len(req) = Len(tmpls)
    /\ \A k \in 1..Len(tmpls) : ExpectedReq(k, req[k])

\* C5 as stated: after each completed pipeline operation on a Standard
\* note-type the cache has one entry per template, in template order, as the
\* builder gives for the current fields and templates.
C5_CacheFreshAnyNoteType ==
    (Completed /\ type = MODEL_STD) => CacheFresh

\* C5 amended: the same for a note-type that has been saved (has an id).
C5_CacheFresh ==
    (Completed /\ type = MODEL_STD /\ id # 0) => CacheFresh

\* a saved note-type after remField stripped the only reference of a
\* template, whose entry turned 'none'
C5_Witness ==
    /\ id # 0 /\ last.op = "remField"
    /\ \E k \in 1..Len(tmpls) : tmpls[k].qfmt = <<>> /\ req[k].type = "none"
    /\ \E k \in 1..Len(tmpls) : req[k].type = "all"

Mutations == {"flds", "tmpls", "sortf", "notes", "cards"}

\* C6: a structural mutation of a saved note-type marks the schema changed
\* before it touches a field or template list, an ordinal, a note or a card.
C6_SchemaMarkedFirst ==
    (id # 0 /\ last.op \in PipelineOps
       /\ \E i \in 1..Len(last.trace) : last.trace[i] \in Mutations)
      => last.trace[1] = "modSchema"

\* C7: every stored card has an ordinal in [0, template count) and sits on
\* the template it was made for; a successful remTemplate deletes exactly the
\* cards of the removed template.
C7_CardsFollowTemplates ==
    /\ [](id # 0 =>
            \A c \in cards :
               /\ c.ord \in 0..(Len(tmpls) - 1)
               /\ tmpls[c.ord + 1].name = cardTmpl[c.id])
    /\ [][(last'.op = "remTemplate" /\ last'.ret = "True")
            => {c.id : c \in cards'}
                 = {c.id : c \in {d \in cards : d.ord # last'.arg[1]}}]_vars

\* after a move, a card whose ordinal is no longer the one it was made with
C7_Witness ==
    /\ id # 0
    /\ last.op = "moveTemplate" /\ last.arg # <<>>
    /\ \E c \in cards : c.id # c.nid * 10 + c.ord
    /\ \E c \in cards : c.ord = 0

\* the slots of stored note n
Slots(n) == splitFields(notes[n])

NotesFollowFields ==
    \A n \in DOMAIN notes :
       /\ Len(Slots(n)) = Len(flds)
       /\ \A i \in 1..Len(flds) : Slots(n)[i] = noteVals[n][flds[i].name]

\* C8 as stated: every stored note has as many slots as the note-type has
\* fields, each field's value at the field's ordinal.
C8_NotesFollowFieldsAlways ==
    id # 0 => NotesFollowFields

\* C8 amended: an operation that leaves the note-type at least one field
\* keeps every stored note at one slot per field, each field's value at the
\* field's ordinal (so the notes follow the fields for as long as the last
\* field is never removed).
C8_NotesFollowFields ==
    [][(id' # 0 /\ (id # 0 => NotesFollowFields) /\ Len(flds') >= 1)
         => NotesFollowFields']_vars

\* a note with two different values whose fields were moved
C8_Witness ==
    /\ id # 0
    /\ last.op = "moveField" /\ last.arg # <<>>
    /\ \E n \in DOMAIN notes : Len(Slots(n)) = 2 /\ Slots(n)[1] # Slots(n)[2]
    /\ NotesFollowFields

\* C9: each field's ordinal is its index in the field list and each
\* template's ordinal its index in the template list.
C9_OrdsAreIndexes ==
    /\ \A i \in 1..Len(flds) : flds[i].ord = i - 1
    /\ \A i \in 1..Len(tmpls) : tmpls[i].ord = i - 1

\* two fields and two templates, after a field was moved
C9_Witness ==
    /\ last.op = "moveField" /\ last.arg # <<>>
    /\ Len(flds) = 2 /\ Len(tmpls) = 2
    /\ flds[1].name = "Back"

\* C10: moveField sets the sort-field index to the moved field's new
\* position if the moved field was the sort field, and not otherwise.
C10_MoveFieldSortf ==
    [][(last'.op = "moveField" /\ last'.arg # <<>>)
         => IF sortf = last'.arg[1] THEN sortf' = last'.arg[2]
            ELSE sortf' # last'.arg[2]]_vars

\* ------------------------------------------------------------------ sort field
\* setSortIdx(m, idx)
setSortIdx(idx) ==
    IF idx >= 0 /\ idx < Len(flds)
    THEN /\ scm' = TRUE
         /\ sortf' = idx
         /\ req' = save(id, type, flds, tmpls, req)
         /\ changed' = TRUE
         /\ last' = Call("setSortIdx", <<idx>>, "None",
                         <<"modSchema", "sortf", "updateFieldCache", "save">>)
         /\ UNCHANGED <<dbModels, noteMid, id, type, flds, tmpls, notes, cards,
                        cardTmpl, noteVals>>
    ELSE /\ last' = Call("setSortIdx", <<idx>>, "AssertionError", <<>>)
         /\ UNCHANGED <<dbModels, noteMid, id, type, sortf, flds, tmpls, req, changed,
                        scm, notes, cards, cardTmpl, noteVals>>

\* remField(m, field) for a field that is not in m['flds']: list.index
\* raises after col.modSchema() has run
remFieldMissing ==
    /\ scm' = TRUE
    /\ last' = Call("remField", <<>>, "ValueError", <<"modSchema">>)
    /\ UNCHANGED <<dbModels, noteMid, id, type, sortf, flds, tmpls, req, changed,
                   notes, cards, cardTmpl, noteVals>>

\* moveField(m, field, idx) for a field that is not in m['flds']
moveFieldMissing ==
    /\ scm' = TRUE
    /\ last' = Call("moveField", <<>>, "ValueError", <<"modSchema">>)
    /\ UNCHANGED <<dbModels, noteMid, id, type, sortf, flds, tmpls, req, changed,
                   notes, cards, cardTmpl, noteVals>>

\* remTemplate(m, template) with a single template, or with a template that
\* is not in m['tmpls']: the assert, then list.index
remTemplateRaises ==
    /\ last' = Call("remTemplate", <<>>,
                    IF Len(tmpls) > 1 THEN "ValueError" ELSE "AssertionError", <<>>)
    /\ UNCHANGED <<dbModels, noteMid, id, type, sortf, flds, tmpls, req, changed,
                   scm, notes, cards, cardTmpl, noteVals>>

\* moveTemplate(m, template, idx) for a template that is not in m['tmpls']
moveTemplateMissing ==
    /\ last' = Call("moveTemplate", <<>>, "ValueError", <<>>)
    /\ UNCHANGED <<dbModels, noteMid, id, type, sortf, flds, tmpls, req, changed,
                   scm, notes, cards, cardTmpl, noteVals>>

\* the registry as simplejson.dumps(self.models) writes it
registry(mid, mtype, msortf, mflds, mtmpls, mreq) ==
    IF mid = 0 THEN <<>>
    ELSE <<[id |-> mid, type |-> mtype, sortf |-> msortf, flds |-> mflds,
            tmpls |-> mtmpls, req |-> mreq]>>

InitFlds == 3

SortFieldNames == {<<"Front", "Back", "Extra", "Hint">>[i] : i \in 1..InitFlds}

SortFieldLists ==
    {updateFieldOrds([i \in 1..InitFlds |->
        [name |-> <<"Front", "Back", "Extra", "Hint">>[i], ord |-> None]])}

SortTmplLists ==
    {updateTemplOrds(<<[name |-> "Card1", ord |-> None, qfmt |-> Ref("Front")]>>),
     updateTemplOrds(<<[name |-> "Card1", ord |-> None, qfmt |-> Ref("Front")],
                       [name |-> "Card2", ord |-> None,
                        qfmt |-> Ref("Back") \o Ref("Extra")]>>)}

SortPayloads ==
    {<<>>} \cup {<<p>> : p \in {v \in [1..InitFlds -> {<<>>, <<"a">>, <<"b">>}] :
                                  v[1] = <<"a">> /\ v[2] # v[1]}}

\* a saved, loaded note-type with InitFlds fields and at most one note
InitSort ==
    /\ id = 1
    /\ type = MODEL_STD
    /\ sortf \in 0..(InitFlds - 1)
    /\ flds \in SortFieldLists
    /\ tmpls \in SortTmplLists
    /\ req = updateRequired(type, flds, tmpls, <<>>)
    /\ changed = FALSE
    /\ scm = FALSE
    /\ \E payload \in SortPayloads :
          /\ notes = [n \in DOMAIN payload |-> joinFields(payload[n])]
          /\ noteMid = [n \in DOMAIN payload |-> id]
          /\ noteVals = [n \in DOMAIN payload |->
                           [f \in SortFieldNames |->
                              payload[n][CHOOSE i \in 1..Len(flds) : flds[i].name = f]]]
          /\ cards = UNION {LET avail == availOrds(req, joinFields(payload[n]))
                            IN {[id |-> n * 10 + avail[k], nid |-> n, ord |-> avail[k]] :
                                  k \in 1..Len(avail)} : n \in DOMAIN payload}
    /\ cardTmpl = [c \in {d.id : d \in cards} |->
                     tmpls[(CHOOSE d \in cards : d.id = c).ord + 1].name]
    /\ dbModels = registry(id, type, sortf, flds, tmpls, req)
    /\ last = Call("load", <<>>, "None", <<>>)

NextSort ==
    \/ \E idx \in (0 - 1)..InitFlds : setSortIdx(idx)
    \/ \E name \in FieldNames : addField(name)
    \/ \E idx \in 0..(InitFlds - 1) : remField(idx)
    \/ \E oldidx, idx \in 0..(InitFlds - 1) : moveField(oldidx, idx)
    \/ remFieldMissing
    \/ moveFieldMissing
    \/ remTemplateRaises
    \/ moveTemplateMissing

SpecSort == InitSort /\ [][NextSort]_vars

\* C11: after any sequence of setSortIdx, addField, remField and moveField
\* that leaves the note-type with at least one field, the sort-field index
\* lies in [0, field count)
C11_SortfInRange ==
    Len(flds) >= 1 => (sortf >= 0 /\ sortf < Len(flds))

\* C12: on a saved Standard note-type, moving a field from position i to j
\* and then back from j to i leaves every stored note's payload and the
\* requirement cache as they were before the first move
C12_MoveFieldRoundTrip ==
    [][(/\ last'.op = "moveField"
        /\ last'.ret = "None"
        /\ last'.arg # <<>>
        /\ id # 0
        /\ type = MODEL_STD)
       => LET i == last'.arg[1]
              j == last'.arg[2]
              backflds == updateFieldOrds(moveList(flds', j, i))
          IN /\ transformFields(id', notes', <<"move", j, i>>) = notes
             /\ save(id', type', backflds, tmpls', req') = req]_vars

\* a field of a note-type with a stored note of distinct values and two
\* templates has been moved across another field
C12_Witness ==
    /\ last.op = "moveField"
    /\ last.arg = <<0, 2>>
    /\ Len(tmpls) = 2
    /\ notes # <<>>
    /\ \E n \in DOMAIN notes :
          LET sf == splitFields(notes[n])
          IN Len(sf) = 3 /\ sf[1] # sf[2] /\ sf[2] # sf[3] /\ sf[1] # sf[3]
    /\ \E k \in 1..Len(req) : req[k].type = "any"

\* C16: when setSortIdx, remField, moveField, remTemplate or moveTemplate is
\* called with its precondition violated (index out of range, a single
\* template, a field or template that is not in the list), the violation is
\* detected before any mutation: note-type, notes, cards, dirty flag and
\* schema-changed marker are unchanged
C16_FailsBeforeMutation ==
    [][last'.ret \in {"AssertionError", "ValueError"}
       => /\ UNCHANGED store
          /\ UNCHANGED <<dbModels, noteMid>>
          /\ last'.trace = <<>>]_vars

\* C19: removing a field other than the sort field leaves the sort-field
\* index designating the field it designated before
C19_SortFieldKeepsIdentity ==
    [][(/\ last'.op = "remField"
        /\ last'.ret = "None"
        /\ sortf >= 0 /\ sortf < Len(flds)
        /\ \E i \in 1..Len(flds') : flds'[i].name = flds[sortf + 1].name)
       => /\ sortf' >= 0 /\ sortf' < Len(flds')
          /\ flds'[sortf' + 1].name = flds[sortf + 1].name]_vars

\* ------------------------------------------------------------------ migration
\* a dict argument: given is FALSE for None; map is a set of <<key, value>>
Dict(map) == [given |-> TRUE, map |-> map]
NoDict == [given |-> FALSE, map |-> {}]

\* "if d:" is false for None and for the empty dict
Truthy(d) == d.given /\ d.map # {}

Keys(d) == {p[1] : p \in d.map}
Get(d, k) == (CHOOSE p \in d.map : p[1] = k)[2]

\* as changeNote, for c in range(len(old fields))
changeNoteOldCount(joined, nfields, map) ==
    LET old == splitFields(joined)
    IN joinFields([c \in 1..Len(old) |->
                     IF \E p \in map.map : p[2] = c - 1
                     THEN old[(CHOOSE p \in map.map : p[2] = c - 1)[1] + 1]
                     ELSE <<>>])

\* the loop body of _changeNotes: newflds[new] = flds[old] for every entry,
\* then newflds.get(c, "") for c in range(nfields)
changeNote(joined, nfields, map) ==
    LET old == splitFields(joined)
    IN joinFields([c \in 1..nfields |->
                     IF \E p \in map.map : p[2] = c - 1
                     THEN old[(CHOOSE p \in map.map : p[2] = c - 1)[1] + 1]
                     ELSE <<>>])

\* _changeNotes(nids, newModel, map): the field text of every note
changeNotes(stored, nids, nfields, map) ==
    [n \in DOMAIN stored |->
       IF n \in nids THEN changeNote(stored[n], nfields, map) ELSE stored[n]]

\* as changeCards, keeping the cards that map to None
changeCardsKeep(cs, nids, map) ==
    {IF c.nid \in nids /\ Get(map, c.ord) # None
     THEN [c EXCEPT !.ord = Get(map, c.ord)] ELSE c : c \in cs}

\* _changeCards(nids, newModel, map): the cards it leaves
changeCards(cs, nids, map) ==
    {c \in cs : c.nid \notin nids}
    \cup {[c EXCEPT !.ord = Get(map, c.ord)] :
            c \in {d \in cs : d.nid \in nids /\ Get(map, d.ord) # None}}

\* col.genCards(nids): a card for every template available to a note of
\* nids that has no card on it yet; the new cards take ids from base on
genCards(cs, stored, nids, treq, base) ==
    cs \cup UNION {LET avail == availOrds(treq, stored[n])
                   IN {[id |-> base + n * 10 + avail[k], nid |-> n, ord |-> avail[k]] :
                         k \in {j \in 1..Len(avail) :
                                  ~ \E c \in cs : c.nid = n /\ c.ord = avail[j]}} :
                   n \in nids}

\* the note-type itself as the target of change
Self == [id |-> id, nflds |-> Len(flds), ntmpls |-> Len(tmpls), req |-> req]

\* another saved note-type of the registry, with three fields
Other ==
    [id |-> 2, nflds |-> 3, ntmpls |-> 2,
     req |-> <<[ord |-> 0, type |-> "all", req |-> <<1>>],
               [ord |-> 1, type |-> "any", req |-> <<0, 2>>]>>]

\* field maps: one-to-one, from ordinals of m to ordinals of newModel
FieldMaps(nold, nnew) ==
    {NoDict} \cup
    {Dict(map) : map \in {x \in SUBSET ((0..(nold - 1)) \X (0..(nnew - 1))) :
                            \A p, q \in x : (p[1] = q[1] \/ p[2] = q[2]) => p = q}}

\* card maps: None, empty, or an entry for every template ordinal of m
CardMaps(nold, nnew) ==
    {NoDict, Dict({})} \cup
    {Dict({<<k, f[k]>> : k \in 0..(nold - 1)}) :
       f \in [0..(nold - 1) -> (0..(nnew - 1)) \cup {None}]}

\* change(m, nids, newModel, fmap, cmap), nids being notes of m
change(nids, newModel, fmap, cmap) ==
    /\ id # 0
    /\ last.op # "change"
    /\ nids # {}
    /\ \A n \in nids : n \in DOMAIN notes /\ noteMid[n] = id
    /\ scm' = TRUE
    /\ IF ~ (newModel.id = id \/ (Truthy(fmap) /\ Truthy(cmap)))
       THEN /\ last' = Call("change", <<nids, newModel, fmap, cmap>>,
                            "AssertionError", <<"modSchema">>)
            /\ UNCHANGED <<notes, noteMid, cards>>
       ELSE LET newnotes == IF Truthy(fmap)
                            THEN changeNotes(notes, nids, newModel.nflds, fmap)
                            ELSE notes
                remapped == IF Truthy(cmap) THEN changeCards(cards, nids, cmap)
                            ELSE cards
            IN /\ notes' = newnotes
               /\ noteMid' = IF Truthy(fmap)
                             THEN [n \in DOMAIN noteMid |->
                                     IF n \in nids THEN newModel.id ELSE noteMid[n]]
                             ELSE noteMid
               /\ cards' = genCards(remapped, newnotes, nids, newModel.req, 100)
               /\ last' = Call("change", <<nids, newModel, fmap, cmap>>, "None",
                               <<"modSchema">>
                               \o (IF Truthy(fmap)
                                   THEN <<"notes", "updateFieldCache">> ELSE <<>>)
                               \o (IF Truthy(cmap)
                                   THEN <<"cards", "remCards">> ELSE <<>>)
                               \o <<"genCards">>)
    /\ UNCHANGED <<dbModels, id, type, sortf, flds, tmpls, req, changed, cardTmpl,
                   noteVals>>

ChangePayloads ==
    {<<<<<<"a">>, <<"b">>>>>>,
     <<<<<<"a">>, <<>>>>, <<<<"b">>, <<"a">>>>>>,
     <<<<<<>>, <<"b">>>>, <<<<"a">>, <<"b">>>>>>}

\* a saved, loaded note-type with two fields, two templates and stored
\* notes with their cards; the histories are not kept across a migration
InitChange ==
    /\ id = 1
    /\ type = MODEL_STD
    /\ sortf = 0
    /\ flds = updateFieldOrds(<<[name |-> "Front", ord |-> None],
                                [name |-> "Back", ord |-> None]>>)
    /\ tmpls = updateTemplOrds(<<[name |-> "Card1", ord |-> None, qfmt |-> Ref("Front")],
                                 [name |-> "Card2", ord |-> None, qfmt |-> Ref("Back")]>>)
    /\ req = updateRequired(type, flds, tmpls, <<>>)
    /\ changed = FALSE
    /\ scm = FALSE
    /\ \E payload \in ChangePayloads :
          /\ notes = [n \in DOMAIN payload |-> joinFields(payload[n])]
          /\ noteMid = [n \in DOMAIN payload |-> id]
          /\ \E missing \in SUBSET {10, 11} :
                cards = {c \in genCards({}, notes, DOMAIN payload, req, 0) :
                           c.id \notin missing}
    /\ cardTmpl = <<>>
    /\ noteVals = <<>>
    /\ dbModels = registry(id, type, sortf, flds, tmpls, req)
    /\ last = Call("load", <<>>, "None", <<>>)

NextChange ==
    \E nids \in SUBSET (1..2), newModel \in {Self, Other} :
       \E fmap \in FieldMaps(Len(flds), newModel.nflds),
          cmap \in CardMaps(Len(tmpls), newModel.ntmpls) :
          change(nids, newModel, fmap, cmap)

SpecChange == InitChange /\ [][NextChange]_vars

\* the arguments of the change call that has just returned
ChangeNids == last.arg[1]
ChangeTarget == last.arg[2]
ChangeFmap == last.arg[3]
ChangeCmap == last.arg[4]

\* the field vector C13 describes for a note whose old vector is old
Migrated(old, nfields, map) ==
    [c \in 1..nfields |->
       IF \E o \in Keys(map) : Get(map, o) = c - 1
       THEN old[(CHOOSE o \in Keys(map) : Get(map, o) = c - 1) + 1]
       ELSE <<>>]

NotesMigrated ==
    \A n \in ChangeNids' :
       /\ splitFields(notes'[n])
            = Migrated(splitFields(notes[n]), ChangeTarget'.nflds, ChangeFmap')
       /\ noteMid'[n] = ChangeTarget'.id

\* C13 as stated: change with a field map rewrites each migrated note to a
\* vector of the target's field count, the old value at position old placed
\* at position new, every other position empty, and sets the note's
\* note-type to the target
C13_ChangeNotesAnyMap ==
    [][(last'.op = "change" /\ last'.ret = "None" /\ ChangeFmap'.given)
       => NotesMigrated]_vars

\* C13, amended: the same for a field map with at least one entry
C13_ChangeNotes ==
    [][(last'.op = "change" /\ last'.ret = "None" /\ ChangeFmap'.given
        /\ ChangeFmap'.map # {})
       => NotesMigrated]_vars

\* a note has moved from the 2-field type to the 3-field type with the
\* field map {0:1, 1:2} and holds ["", "a", "b"]
C13_Witness ==
    /\ last.op = "change"
    /\ last.ret = "None"
    /\ ChangeTarget = Other
    /\ ChangeFmap = Dict({<<0, 1>>, <<1, 2>>})
    /\ 1 \in ChangeNids
    /\ splitFields(notes[1]) = <<<<>>, <<"a">>, <<"b">>>>
    /\ noteMid[1] = 2

\* C14: change with a card map gives every card of the migrated notes whose
\* old ordinal has a target that target as its ordinal, deletes every card
\* whose old ordinal maps to drop, keeps the other cards, and runs card
\* generation once, after the notes and the cards have been remapped
C14_ChangeCards ==
    [][(last'.op = "change" /\ last'.ret = "None" /\ ChangeCmap'.given)
       => /\ \A c \in cards :
               IF c.nid \notin ChangeNids' THEN c \in cards'
               ELSE IF c.ord \notin Keys(ChangeCmap') THEN TRUE
               ELSE IF Get(ChangeCmap', c.ord) # None
               THEN [c EXCEPT !.ord = Get(ChangeCmap', c.ord)] \in cards'
               ELSE ~ \E d \in cards' : d.id = c.id
          /\ \A d \in cards' : \A e \in cards' : d.id = e.id => d = e
          /\ LET t == last'.trace
             IN /\ t[Len(t)] = "genCards"
                /\ \A k \in 1..(Len(t) - 1) : t[k] # "genCards"
                /\ \A d \in cards' :
                      (~ \E c \in cards : c.id = d.id)
                      => /\ d.nid \in ChangeNids'
                         /\ \E k \in 1..Len(ChangeTarget'.req) :
                               /\ ChangeTarget'.req[k].ord = d.ord
                               /\ entryOk(ChangeTarget'.req[k],
                                          [i \in 1..Len(splitFields(notes'[d.nid])) |->
                                             strip(splitFields(notes'[d.nid])[i])])]_vars

\* a note with a card on each template has been migrated with the card map
\* {0:1, 1:drop}: the first card now sits on ordinal 1, the second is gone,
\* and card generation has made a new card
C14_Witness ==
    /\ last.op = "change"
    /\ last.ret = "None"
    /\ ChangeCmap = Dict({<<0, 1>>, <<1, None>>})
    /\ ChangeFmap.given /\ ChangeFmap.map # {}
    /\ 1 \in ChangeNids
    /\ [id |-> 10, nid |-> 1, ord |-> 1] \in cards
    /\ ~ \E c \in cards : c.id = 11
    /\ \E c \in cards : c.id >= 100 /\ c.nid = 1
    /\ last.trace = <<"modSchema", "notes", "updateFieldCache", "cards", "remCards",
                      "genCards">>

\* ------------------------------------------------------------------ cloze
\* a cloze reference to field f in a question pattern
Cloze(f) == <<"{{", "cloze", ":", f, "}}">>

\* fieldMap(m): field name -> ordinal
fieldMap(mflds) ==
    [n \in {mflds[i].name : i \in 1..Len(mflds)} |->
       mflds[CHOOSE i \in 1..Len(mflds) : mflds[i].name = n].ord]

\* the first index from i on where list holds x, 0 if there is none
RECURSIVE indexFrom(_, _, _)
indexFrom(list, x, i) ==
    IF i > Len(list) THEN 0
    ELSE IF list[i] = x THEN i
    ELSE indexFrom(list, x, i + 1)

\* re.findall("{{cloze:(.+?)}}", qfmt): the captured groups, left to right
RECURSIVE findCloze(_, _)
findCloze(q, i) ==
    IF i + 4 > Len(q) THEN <<>>
    ELSE LET j == indexFrom(q, "}}", i + 4)
         IN IF q[i] = "{{" /\ q[i + 1] = "cloze" /\ q[i + 2] = ":" /\ j # 0
            THEN <<SubSeq(q, i + 3, j - 1)>> \o findCloze(q, j + 1)
            ELSE findCloze(q, i + 1)

Digits == <<"0", "1", "2", "3", "4", "5", "6", "7", "8", "9">>

IsDigit(c) == \E d \in 1..Len(Digits) : Digits[d] = c

\* int(text) for a text of decimal digits
RECURSIVE int(_)
int(text) ==
    IF text = <<>> THEN 0
    ELSE int(SubSeq(text, 1, Len(text) - 1)) * 10
         + (CHOOSE d \in 1..Len(Digits) : Digits[d] = text[Len(text)]) - 1

\* the first index from k on where text holds no digit
RECURSIVE digitsEnd(_, _)
digitsEnd(text, k) ==
    IF k > Len(text) \/ ~ IsDigit(text[k]) THEN k ELSE digitsEnd(text, k + 1)

\* re.findall("{{c(\d+)::[^}]*?}}", text): the captured digits, left to
\* right, of the matches that do not overlap
RECURSIVE findMarkers(_, _)
findMarkers(text, i) ==
    IF i > Len(text) THEN <<>>
    ELSE LET k == digitsEnd(text, i + 3)
             e == indexFrom(text, "}", k + 2)
         IN IF /\ i + 2 <= Len(text)
               /\ text[i] = "{" /\ text[i + 1] = "{" /\ text[i + 2] = "c"
               /\ k > i + 3
               /\ k + 1 <= Len(text)
               /\ text[k] = ":" /\ text[k + 1] = ":"
               /\ e # 0
               /\ e + 1 <= Len(text)
               /\ text[e + 1] = "}"
            THEN <<SubSeq(text, i + 3, k - 1)>> \o findMarkers(text, e + 2)
            ELSE findMarkers(text, i + 1)

\* as clozeOrd, without the - 1
clozeOrdSame(digits) == int(digits)

\* int(m)-1 for the digits m of a marker
clozeOrd(digits) == int(digits) - 1

\* _availClozeOrds(m, flds): the set it builds (returned as a list in no
\* particular order)
availClozeOrds(mflds, mtmpls, joined) ==
    LET sflds == splitFields(joined)
        map == fieldMap(mflds)
        fnames == findCloze(mtmpls[1].qfmt, 1)
    IN UNION {IF Len(fnames[a]) = 1 /\ fnames[a][1] \in DOMAIN map
              THEN LET found == findMarkers(sflds[map[fnames[a][1]] + 1], 1)
                   IN {clozeOrd(found[b]) : b \in 1..Len(found)}
              ELSE {} : a \in 1..Len(fnames)}

\* a cloze marker numbered by the digits n
Marker(n) == <<"{", "{", "c">> \o n \o <<":", ":", "f", "}", "}">>

ClozeValues ==
    {<<>>,
     <<" ">> \o Marker(<<"1">>) \o <<" ">> \o Marker(<<"2">>),
     Marker(<<"2">>) \o Marker(<<"2">>),
     Marker(<<"1", "2">>) \o <<" ">>,
     Marker(<<"0">>),
     <<"{", "{", "c", "3", ":", ":", "f", "}", " ", "a">>}

ClozeFieldLists ==
    {updateFieldOrds(<<[name |-> "Text", ord |-> None]>>),
     updateFieldOrds(<<[name |-> "Text", ord |-> None],
                       [name |-> "Extra", ord |-> None]>>)}

ClozePatterns ==
    {Cloze("Text"), Cloze("Text") \o Ref("Extra"), Cloze("Extra") \o Lit \o Cloze("Text"),
     Cloze("Gone") \o Cloze("Extra"), Ref("Text")}

\* a saved Cloze note-type with its single template
InitCloze ==
    /\ id = 1
    /\ type = MODEL_CLOZE
    /\ sortf = 0
    /\ flds \in ClozeFieldLists
    /\ \E qfmt \in ClozePatterns :
          tmpls = updateTemplOrds(<<[name |-> "Cloze", ord |-> None, qfmt |-> qfmt]>>)
    /\ req = updateRequired(type, flds, tmpls, <<>>)
    /\ changed = FALSE
    /\ scm = FALSE
    /\ notes = <<>>
    /\ cards = {}
    /\ last = Call("load", <<>>, "None", <<>>)
    /\ cardTmpl = <<>>
    /\ noteVals = <<>>
    /\ dbModels = registry(id, type, sortf, flds, tmpls, req)
    /\ noteMid = <<>>

\* availOrds(m, joinFields(values)) on the Cloze note-type
callAvailClozeOrds(values) ==
    /\ type = MODEL_CLOZE
    /\ Len(values) = Len(flds)
    /\ last.op # "availOrds"
    /\ last' = Call("availOrds", values,
                    availClozeOrds(flds, tmpls, joinFields(values)), <<>>)
    /\ UNCHANGED <<dbModels, noteMid, id, type, sortf, flds, tmpls, req, changed, scm,
                   notes, cards, cardTmpl, noteVals>>

NextCloze ==
    \E n \in 1..2 : \E values \in [1..n -> ClozeValues] : callAvailClozeOrds(values)

SpecCloze == InitCloze /\ [][NextCloze]_vars

\* the fields named by a cloze reference of the template's question pattern
ClozeReferenced ==
    {i \in 1..Len(flds) :
       \E p \in 1..Len(tmpls[1].qfmt) :
          /\ p + 4 <= Len(tmpls[1].qfmt)
          /\ SubSeq(tmpls[1].qfmt, p, p + 4) = Cloze(flds[i].name)}

\* the decimal digits of n
RECURSIVE Decimal(_)
Decimal(n) ==
    IF n < 10 THEN <<Digits[n + 1]>>
    ELSE Decimal(n \div 10) \o <<Digits[(n % 10) + 1]>>

\* the numbers N below 100 for which text holds a marker {{cN::...}}
MarkerNumbers(text) ==
    {n \in 0..99 :
       LET head == <<"{", "{", "c">> \o Decimal(n) \o <<":", ":">>
       IN \E p \in 1..Len(text) :
             /\ p + Len(head) - 1 <= Len(text)
             /\ SubSeq(text, p, p + Len(head) - 1) = head
             /\ \E e \in (p + Len(head))..(Len(text) - 1) :
                   /\ text[e] = "}" /\ text[e + 1] = "}"
                   /\ \A b \in (p + Len(head))..(e - 1) : text[b] # "}"}

\* C15: for a Cloze note-type, availOrds returns the set of N-1 over the
\* markers {{cN::...}} found in the raw values of the fields that the single
\* template's question pattern references as {{cloze:FieldName}}; a
\* reference to an unknown name is skipped and a field that is not
\* referenced contributes nothing
C15_AvailClozeOrds ==
    last.op = "availOrds"
    => last.ret = UNION {{n - 1 : n \in MarkerNumbers(last.arg[i])} :
                           i \in ClozeReferenced}

\* a field Text holding " {{c1::f}} {{c2::f}}", referenced next to an
\* unknown or unreferenced field, gives {0, 1}
C15_Witness ==
    /\ last.op = "availOrds"
    /\ last.arg[1] = <<" ">> \o Marker(<<"1">>) \o <<" ">> \o Marker(<<"2">>)
    /\ Len(flds) = 2
    /\ last.arg[2] = Marker(<<"1", "2">>) \o <<" ">>
    /\ ClozeReferenced = {1}
    /\ last.ret = {0, 1}

\* C20: availOrds never returns a negative ordinal, for a Cloze note-type
\* and any payload, markers numbered 0 included
C20_ClozeOrdsNotNegative ==
    last.op = "availOrds" => \A o \in last.ret : o >= 0

\* ------------------------------------------------------------------ save, flush
\* save(m) for m the note-type, save() for m = None
callSave(withModel) ==
    /\ req' = IF withModel THEN save(id, type, flds, tmpls, req) ELSE req
    /\ changed' = TRUE
    /\ last' = Call("save", <<>>, "None", <<>>)
    /\ UNCHANGED <<dbModels, noteMid, id, type, sortf, flds, tmpls, scm, notes, cards,
                   cardTmpl, noteVals>>

\* as flushWrites, whatever the flag
flushWritesAlways(ch) == TRUE

\* "if self.changed:" in flush
flushWrites(ch) == ch

\* flush()
flush ==
    /\ IF flushWrites(changed)
       THEN /\ dbModels' = registry(id, type, sortf, flds, tmpls, req)
            /\ changed' = FALSE
            /\ last' = Call("flush", <<>>, "None", <<"db.execute">>)
       ELSE /\ last' = Call("flush", <<>>, "None", <<>>)
            /\ UNCHANGED <<dbModels, changed>>
    /\ UNCHANGED <<noteMid, id, type, sortf, flds, tmpls, req, scm, notes, cards,
                   cardTmpl, noteVals>>

NextFlush ==
    \/ add
    \/ \E name \in FieldNames : addField(name)
    \/ \E name \in TemplateNames, qfmt \in Patterns : addTemplate(name, qfmt)
    \/ \E idx \in 0..(MaxFlds - 1) : setSortIdx(idx)
    \/ \E withModel \in BOOLEAN : callSave(withModel)
    \/ flush

SpecFlush == Init /\ [][NextFlush]_vars

\* C18: flush writes the registry to storage if and only if the changed
\* flag is set, and leaves the flag cleared; every save sets the flag; after
\* a flush the stored registry equals the registry in memory; a flush that
\* follows a flush writes nothing
C18_Flush ==
    [][/\ last'.op = "flush"
          => /\ ("db.execute" \in Range(last'.trace)) <=> changed
             /\ changed' = FALSE
             /\ dbModels' = registry(id', type', sortf', flds', tmpls', req')
             /\ ("db.execute" \notin Range(last'.trace)) => dbModels' = dbModels
             /\ last.op = "flush" => "db.execute" \notin Range(last'.trace)
       /\ last'.op = "save" => changed' = TRUE]_vars

\* a flush has written a saved note-type with fields and templates that
\* differs from what storage held before
C18_Witness ==
    /\ last.op = "flush"
    /\ last.trace = <<"db.execute">>
    /\ id # 0
    /\ Len(flds) = 2
    /\ tmpls # <<>>
    /\ sortf = 1
    /\ changed = FALSE
    /\ dbModels = registry(id, type, sortf, flds, tmpls, req)

====
